---- MODULE Spec2Model ----
(***************************************************************************)
(* Model of the bloomberg base module                                      *)
(* (src/javascripts/vendor/bloomberg.js): Base.prototype.namespace, the    *)
(* namespace registrar, and Base.prototype.ready, the readiness notifier,  *)
(* over one shared root object, one registry and one event pool.           *)
(*                                                                         *)
(* Representation.  A dotted string such as "a.b" is the sequence of its   *)
(* segments <<"a", "b">>; "" is <<>>.  JavaScript objects live in a heap:  *)
(* heap[o] maps the names of the properties of o to their values.  Object  *)
(* identity is the index o, so that two paths holding the same literal     *)
(* object are the same container.  The names of child namespaces (Segs)    *)
(* and of members (MemberKeys) are kept apart, and the root's View stands  *)
(* for the View the root inherits from Base.prototype.                     *)
(*                                                                         *)
(* Views.  SpecView follows the instances of the View of a registered      *)
(* module: View.initialize, what a module keeps in cache.views, and        *)
(* View.remove.  A view is its index in views; null is 0.                  *)
(***************************************************************************)
EXTENDS Integers, Sequences, FiniteSets, TLC

\* ------------------------------------------------------------- bounds
MaxCalls == 3        \* calls of namespace() and ready() after construction

\* ------------------------------------------------------------- names
rootObject == "bloomberg"
Segs == {"a", "b"}
MemberKeys == {"View", "x", "y"}
Names == Segs \cup MemberKeys

(* The paths handed to namespace(): the root, a path, a path below it and *)
(* the path made of the same segments the other way round.                *)
Paths == {<<>>, <<"a">>, <<"a", "b">>, <<"b", "a">>}

(* "literal": namespace ? rootObject + "." + namespace : rootObject *)
Fq(namespace) == <<rootObject>> \o namespace

(* What a caller may hand to ready(): the fully-qualified form of a path, *)
(* or the path as it was handed to namespace().                           *)
ReadyNames == {Fq(p) : p \in Paths} \cup (Paths \ {<<>>})

\* ------------------------------------------------------------- values
Undef == [k |-> "undef", v |-> 0, gen |-> 0, lit |-> <<>>, obj |-> 0, kv |-> {}]
Prim(n) == [k |-> "prim", v |-> n, gen |-> 0, lit |-> <<>>, obj |-> 0, kv |-> {}]
(* a nested object literal, given by its own keys *)
Nested(keys) == [k |-> "map", v |-> 0, gen |-> 0, lit |-> <<>>, obj |-> 0, kv |-> keys]
(* a reference to the heap object o *)
Ref(o) == [k |-> "obj", v |-> 0, gen |-> 0, lit |-> <<>>, obj |-> o, kv |-> {}]
(* a View class: v names the class it was first written as, gen counts the *)
(* extensions namespace() has put on top of it, lit and obj are            *)
(* prototype.config.namespace.literal and .object                          *)
ViewClass(v, gen, lit, obj) ==
  [k |-> "view", v |-> v, gen |-> gen, lit |-> lit, obj |-> obj, kv |-> {}]

RootId == 1
NoProps == [n \in {} |-> Undef]
Props(view, x, y) ==
  LET all == [n \in MemberKeys |-> IF n = "View" THEN view ELSE IF n = "x" THEN x ELSE y]
  IN  [n \in {k \in MemberKeys : all[k] # Undef} |-> all[n]]

(* props[n], undefined when the object has no such property *)
Get(props, n) == IF n \in DOMAIN props THEN props[n] ELSE Undef

(* props[n] = value *)
Set(props, n, value) ==
  [k \in DOMAIN props \cup {n} |-> IF k = n THEN value ELSE props[k]]

(* Base.prototype.View: config is {} *)
BaseView == ViewClass(0, 0, <<>>, 0)

(* View.extend({config: {namespace: {literal, object}}}) *)
Extend(view, literal, object) == ViewClass(view.v, view.gen + 1, literal, object)

(* bloomberg.View after construction, and the classes modules write as     *)
(* bloomberg.View.extend({...}): they inherit the root's config.           *)
RootView == Extend(BaseView, Fq(<<>>), RootId)
UserView(n) == ViewClass(n, 0, RootView.lit, RootView.obj)

(* The object literals handed to namespace(). *)
Shapes ==
  { NoProps,
    Props(UserView(1), Prim(1), Undef),
    Props(UserView(2), Undef, Prim(1)),
    Props(Undef, Nested({"p"}), Prim(2)),
    Props(Undef, Nested({"q"}), Undef) }

KeysOf(props) == DOMAIN props


\* ------------------------------------------------------------- state
VARIABLES
  heap,       \* the objects: <<props of object 1, props of object 2, ...>>
  registry,   \* var registry = {}: fully-qualified literal -> object
  handlers,   \* what $(eventPool).on has bound: <<[name, cb], ...>>
  held,       \* the literal of the latest namespace() call, which the caller may hand in again
  cbs,        \* one record per callback handed to ready()
  calls,      \* per path: calls of namespace()
  returns,    \* per path: calls of namespace() that returned
  emits,      \* per path: "ready." + literal events triggered
  last,       \* the call that just ran
  prev,       \* the call before it: what it was handed and what it found
  views       \* the View instances made so far: <<view 1, view 2, ...>>

vars == <<heap, registry, handlers, held, cbs, calls, returns, emits, last, prev, views>>

\* ------------------------------------------------------------- the tree
(* verified[parts[0]][parts[1]]... read from the root: the object reached, *)
(* 0 when a segment is undefined on the way                                *)
RECURSIVE Reach(_, _, _)
Reach(h, o, parts) ==
  IF parts = <<>> THEN o
  ELSE IF Get(h[o], Head(parts)).k # "obj" THEN 0
  ELSE Reach(h, h[o][Head(parts)].obj, Tail(parts))

Lookup(h, path) == Reach(h, RootId, path)

(* a merge that also merges a nested object into the nested object it meets *)
MergeDeep(target, source) ==
  [n \in KeysOf(target) \cup KeysOf(source) |->
     IF n \notin KeysOf(source) THEN target[n]
     ELSE IF source[n].k = "map" /\ Get(target, n).k = "map"
          THEN Nested(target[n].kv \cup source[n].kv)
          ELSE source[n]]

(* an assignment of the literal in place of the merge *)
MergeReplace(target, source) == source

(* a merge that leaves the keys the container already has *)
MergeKeepExisting(target, source) ==
  [n \in KeysOf(target) \cup KeysOf(source) |->
     IF n \in KeysOf(target) THEN target[n] ELSE source[n]]

(* for (key in literal) { verified[parts[count]][key] = literal[key]; }    *)
Merge(target, source) ==
  [n \in KeysOf(target) \cup KeysOf(source) |->
     IF n \in KeysOf(source) THEN source[n] ELSE target[n]]

(* The for loop of namespace(): count runs over parts; an undefined        *)
(* segment becomes the literal itself (last segment) or a new {}; a        *)
(* defined last segment gets the literal's keys copied into it.            *)
RECURSIVE Walk(_, _, _, _, _)
Walk(h, verified, parts, count, literal) ==
  IF count > Len(parts) THEN [heap |-> h, verified |-> verified]
  ELSE
    LET key == parts[count]
        final == (count = Len(parts))
        h1 == IF Get(h[verified], key) = Undef
              THEN IF final
                   THEN [h EXCEPT ![verified] = Set(@, key, Ref(literal))]
                   ELSE [Append(h, NoProps) EXCEPT ![verified] = Set(@, key, Ref(Len(h) + 1))]
              ELSE IF final
                   THEN [h EXCEPT ![h[verified][key].obj] = Merge(@, h[literal])]
                   ELSE h
    IN  Walk(h1, h1[verified][key].obj, parts, count + 1, literal)


\* ------------------------------------------------------------- the event pool
(* jQuery reads "ready.bloomberg.a.b" as the event type "ready" with the   *)
(* namespaces bloomberg, a and b.  It sorts the namespaces of a bound      *)
(* handler and of a triggered event, and a triggered event runs a handler  *)
(* when the event's sorted namespaces occur, in order, among the           *)
(* handler's: each namespace at least as often in the handler's name as in *)
(* the event's.                                                            *)
Occurs(name, s) == Cardinality({i \in DOMAIN name : name[i] = s})

SegsOf(name) == {name[i] : i \in DOMAIN name}

Matches(event, bound) == \A s \in SegsOf(event) : Occurs(event, s) <= Occurs(bound, s)

(* the handlers $(eventPool).trigger("ready." + event) runs, in the order  *)
(* they were bound                                                         *)
Triggered(hs, event) == SelectSeq(hs, LAMBDA hd : Matches(event, hd.name))

\* ------------------------------------------------------------- namespace()
(* The run of one namespace() call: c is what the call has done so far.    *)
Start(h, reg) ==
  [heap |-> h, registry |-> reg, verified |-> RootId, threw |-> FALSE,
   emitted |-> <<>>, invoked |-> <<>>, steps |-> <<>>]

(* lines 485-499: the walk and the merge *)
StepWalk(c, namespace, literal) ==
  LET w == Walk(c.heap, RootId, namespace, 1, literal)
  IN  [c EXCEPT !.heap = w.heap, !.verified = w.verified, !.steps = Append(@, "walk")]

(* lines 501-508: verified.View = verified.View.extend({config: ...});     *)
(* reading .extend of an undefined View throws a TypeError                 *)
StepExtend(c, namespace) ==
  IF Get(c.heap[c.verified], "View").k # "view"
  THEN [c EXCEPT !.threw = TRUE, !.steps = Append(@, "throw")]
  ELSE [c EXCEPT !.heap[c.verified]["View"] = Extend(@, Fq(namespace), c.verified),
                 !.steps = Append(@, "extend")]

(* a registry entry that names the root, this, in place of verified *)
StepRecordThis(c) ==
  LET literal == c.heap[c.verified]["View"].lit
  IN  [c EXCEPT !.registry = [k \in DOMAIN c.registry \cup {literal} |->
                                 IF k = literal THEN RootId ELSE c.registry[k]],
                !.steps = Append(@, "record")]

(* lines 511-513: registry[verified.View.prototype.config.namespace.literal] *)
StepRecord(c) ==
  LET literal == c.heap[c.verified]["View"].lit
  IN  [c EXCEPT !.registry = [k \in DOMAIN c.registry \cup {literal} |->
                                 IF k = literal THEN c.verified ELSE c.registry[k]],
                !.steps = Append(@, "record")]

(* What a callback run now would find: the terminal container holding the  *)
(* literal's members, the registry holding the literal, the call returned. *)
Observe(c, namespace, m, cb) ==
  LET o == Lookup(c.heap, namespace)
  IN  [cb |-> cb,
       merged |-> /\ o # 0
                  /\ namespace # <<>> =>
                       \A n \in KeysOf(m) \ {"View"} : Get(c.heap[o], n) = m[n],
       registered |-> Fq(namespace) \in DOMAIN c.registry,
       returned |-> \E i \in DOMAIN c.steps : c.steps[i] = "return"]

(* line 532: $(eventPool).trigger("ready." + literal) *)
StepEmit(c, namespace, m, hs) ==
  LET event == Fq(namespace)
      run == Triggered(hs, event)
  IN  [c EXCEPT !.emitted = Append(@, event),
                !.invoked = @ \o [i \in DOMAIN run |-> Observe(c, namespace, m, run[i].cb)],
                !.steps = Append(@, "emit")]

(* line 539: return verified *)
StepReturn(c) == [c EXCEPT !.steps = Append(@, "return")]

(* namespace() with the trigger moved to the top of the function *)
NamespaceEmitFirst(h, reg, hs, namespace, literal) ==
  LET m == h[literal]
      c1 == StepEmit(Start(h, reg), namespace, m, hs)
      c2 == StepExtend(StepWalk(c1, namespace, literal), namespace)
  IN  IF c2.threw THEN c2 ELSE StepReturn(StepRecord(c2))

(* Base.prototype.namespace, lines 474-540 *)
NamespaceRun(h, reg, hs, namespace, literal) ==
  LET m == h[literal]
      c2 == StepExtend(StepWalk(Start(h, reg), namespace, literal), namespace)
  IN  IF c2.threw THEN c2
      ELSE StepReturn(StepEmit(StepRecord(c2), namespace, m, hs))


\* ------------------------------------------------------------- ready()
(* ready() without the registry test: every callback waits for the event *)
ReadyDefers(reg, hs, namespace, cb) ==
  [handlers |-> Append(hs, [name |-> namespace, cb |-> cb]), invoked |-> <<>>]

(* ready() that binds the handler whether or not it calls the callback *)
ReadyAlwaysBinds(reg, hs, namespace, cb) ==
  [handlers |-> Append(hs, [name |-> namespace, cb |-> cb]),
   invoked |-> IF namespace \in DOMAIN reg THEN <<cb>> ELSE <<>>]

(* Base.prototype.ready, lines 557-572: the callback is called at once     *)
(* when registry[namespace] is defined, and bound to "ready." + namespace  *)
(* otherwise                                                               *)
ReadyRun(reg, hs, namespace, cb) ==
  IF namespace \in DOMAIN reg
  THEN [handlers |-> hs, invoked |-> <<cb>>]
  ELSE [handlers |-> Append(hs, [name |-> namespace, cb |-> cb]), invoked |-> <<>>]

\* ------------------------------------------------------------- bookkeeping
RECURSIVE Total(_, _)
Total(f, S) ==
  IF S = {} THEN 0
  ELSE LET x == CHOOSE y \in S : TRUE IN f[x] + Total(f, S \ {x})

(* calls of namespace() and ready() made by modules, the constructor's    *)
(* call left out                                                          *)
Calls == Total(calls, Paths) - 1 + Len(cbs)

Times(invoked, cb) == Cardinality({i \in DOMAIN invoked : invoked[i].cb = cb})

NoCall ==
  [op |-> "none", path |-> <<>>, lit |-> 0, m |-> NoProps, existed |-> FALSE,
   before |-> NoProps, outcome |-> "none", ret |-> 0, emitted |-> <<>>,
   invoked |-> <<>>, steps |-> <<>>, bound |-> FALSE]

(* the arguments of a call and the container it found at its path *)
Handed(call) ==
  [op |-> call.op, path |-> call.path, m |-> call.m,
   existed |-> call.existed, before |-> call.before]

NamespaceCall(h, namespace, literal, c) ==
  [op |-> "namespace", path |-> namespace, lit |-> literal, m |-> h[literal],
   existed |-> Lookup(h, namespace) # 0,
   before |-> IF Lookup(h, namespace) # 0 THEN h[Lookup(h, namespace)] ELSE NoProps,
   outcome |-> IF c.threw THEN "threw" ELSE "returned",
   ret |-> IF c.threw THEN 0 ELSE c.verified,
   emitted |-> c.emitted, invoked |-> c.invoked, steps |-> c.steps, bound |-> FALSE]

\* ------------------------------------------------------------- construction
(* new Base("bloomberg"), lines 28-44 and 604: the root object, whose View *)
(* is Base.prototype.View, then this.namespace("") with no literal, which  *)
(* runs on a {} of its own                                                 *)
Init ==
  LET h0 == <<Props(BaseView, Undef, Undef), NoProps>>
      c == NamespaceRun(h0, <<>>, <<>>, <<>>, 2)
  IN  /\ heap = c.heap
      /\ registry = c.registry
      /\ handlers = <<>>
      /\ held = {}
      /\ cbs = <<>>
      /\ calls = [p \in Paths |-> IF p = <<>> THEN 1 ELSE 0]
      /\ returns = [p \in Paths |-> IF p = <<>> /\ ~c.threw THEN 1 ELSE 0]
      /\ emits = [p \in Paths |-> IF p = <<>> THEN Len(c.emitted) ELSE 0]
      /\ last = NamespaceCall(h0, <<>>, 2, c)
      /\ prev = Handed(NoCall)
      /\ views = <<>>

\* ------------------------------------------------------------- actions
(* one call bloomberg.namespace(namespace, literal) on the heap h, which   *)
(* already holds the literal                                               *)
DoNamespace(h, namespace, literal) ==
  LET c == NamespaceRun(h, registry, handlers, namespace, literal)
  IN  /\ heap' = c.heap
      /\ registry' = c.registry
      /\ handlers' = handlers
      /\ held' = {literal}
      /\ cbs' = [i \in DOMAIN cbs |->
                   [cbs[i] EXCEPT
                      !.count = @ + Times(c.invoked, i),
                      !.by = IF Times(c.invoked, i) > 0 THEN @ \cup {namespace} ELSE @,
                      !.regs = IF ~c.threw /\ Fq(namespace) = cbs[i].name THEN @ + 1 ELSE @]]
      /\ calls' = [calls EXCEPT ![namespace] = @ + 1]
      /\ returns' = [returns EXCEPT ![namespace] = IF c.threw THEN @ ELSE @ + 1]
      /\ emits' = [emits EXCEPT ![namespace] = @ + Len(c.emitted)]
      /\ last' = NamespaceCall(h, namespace, literal, c)
      /\ prev' = Handed(last)
      /\ UNCHANGED views

(* namespace(path, {...}) with an object literal written at the call *)
NamespaceFresh ==
  /\ Calls < MaxCalls
  /\ \E namespace \in Paths, shape \in Shapes :
       DoNamespace(Append(heap, shape), namespace, Len(heap) + 1)

(* namespace(path, o) with the object the latest namespace() call was handed *)
NamespaceAgain ==
  /\ Calls < MaxCalls
  /\ \E namespace \in Paths, literal \in held :
       DoNamespace(heap, namespace, literal)

(* bloomberg.ready(name, callback) with a new callback *)
Ready ==
  /\ Calls < MaxCalls
  /\ \E namespace \in ReadyNames :
       LET cb == Len(cbs) + 1
           r == ReadyRun(registry, handlers, namespace, cb)
       IN  /\ handlers' = r.handlers
           /\ cbs' = Append(cbs, [name |-> namespace, deferred |-> r.invoked = <<>>,
                                  count |-> Len(r.invoked), by |-> {}, regs |-> 0])
           /\ last' = [NoCall EXCEPT
                         !.op = "ready", !.path = namespace, !.outcome = "returned",
                         !.invoked = [i \in DOMAIN r.invoked |->
                                        [cb |-> r.invoked[i], merged |-> TRUE,
                                         registered |-> TRUE, returned |-> FALSE]],
                         !.bound = Len(r.handlers) > Len(handlers)]
           /\ prev' = Handed(last)
           /\ UNCHANGED <<heap, registry, held, calls, returns, emits, views>>

Next == NamespaceFresh \/ NamespaceAgain \/ Ready

Spec == Init /\ [][Next]_vars

\* ------------------------------------------------------------- views
MaxModules == 1      \* modules registered before views are made
MaxReadys == 1       \* ready() calls made before views are made
MaxViews == 3        \* View instances
MaxCache == 2        \* entries a module puts in cache.views

(* the paths of the modules whose View is instantiated *)
ModulePaths == {<<"a">>}

(* a Model class: gen counts the extensions put on top of it; a Config class *)
ModelClass(n, gen) == [k |-> "model", v |-> n, gen |-> gen, lit |-> <<>>, obj |-> 0, kv |-> {}]
ConfigClass(n) == [k |-> "config", v |-> n, gen |-> 0, lit |-> <<>>, obj |-> 0, kv |-> {}]

(* The module literals: a View; a View and a Model; a View, a Model and a Config. *)
Modules ==
  { Props(UserView(1), Undef, Undef),
    Set(Props(UserView(1), Undef, Undef), "Model", ModelClass(1, 0)),
    Set(Set(Props(UserView(1), Undef, Undef), "Model", ModelClass(1, 0)), "Config", ConfigClass(1)) }

(* The options handed to new View(options): given is FALSE for new View() *)
OptionKeys == {"config", "model", "el"}
Options(keys) == [given |-> TRUE, map |-> [n \in keys |-> 1]]
NoOptions == [given |-> FALSE, map |-> [n \in {} |-> 1]]
OptionSets == {NoOptions, Options({"el"}), Options({"config", "model"})}

(* options && options[n] *)
Has(options, n) == options.given /\ n \in DOMAIN options.map

(* delete options[n] *)
Delete(options, n) ==
  [options EXCEPT !.map = [k \in DOMAIN options.map \ {n} |-> options.map[k]]]

(* this.model: the generation of the Model class it was made from and the *)
(* attributes it was made with (0: none)                                  *)
NoModel == [made |-> FALSE, gen |-> 0, attrs |-> 0]

(* View.initialize(options), lines 302-362, of an instance of the class cls *)
Initialize(h, cls, options) ==
  LET namespaceObject == cls.obj
      hasConfig == Get(h[namespaceObject], "Config") # Undef
      hasModel == Get(h[namespaceObject], "Model") # Undef
      config == IF hasConfig THEN "namespaceObject.Config"
                ELSE IF Has(options, "config") THEN "root.Config"
                ELSE "prototype"
      extends == hasModel /\ ~Has(options, "model")
      Model == h[namespaceObject]["Model"]
      h1 == IF extends
            THEN [h EXCEPT ![namespaceObject] =
                    Set(@, "Model", ModelClass(Model.v, Model.gen + 1))]
            ELSE h
      model == IF extends
               THEN [made |-> TRUE, gen |-> h1[namespaceObject]["Model"].gen, attrs |-> 0]
               ELSE IF hasModel
               THEN [made |-> TRUE, gen |-> Model.gen, attrs |-> options.map["model"]]
               ELSE NoModel
      o1 == IF Has(options, "config") THEN Delete(options, "config") ELSE options
      o2 == IF Has(o1, "model") /\ hasModel THEN Delete(o1, "model") ELSE o1
  IN  [heap |-> h1,
       view |-> [literal |-> cls.lit, object |-> cls.obj,
                 config |-> config, model |-> model,
                 options |-> options, main |-> <<o2>>,
                 cache |-> <<>>, had |-> {}, removed |-> 0]]

(* View.remove(), lines 390-421; RemoveLoop is the while loop at 405-408,  *)
(* counter the index --counter has reached                                 *)
RECURSIVE RemoveRun(_, _)
RECURSIVE RemoveLoop(_, _, _)
RemoveLoop(vs, cachedViews, counter) ==
  IF counter < 1 \/ cachedViews[counter] = 0 THEN vs
  ELSE RemoveLoop(RemoveRun(vs, cachedViews[counter]), cachedViews, counter - 1)

RemoveRun(vs, v) ==
  LET cachedViews == vs[v].cache
      after == RemoveLoop(vs, cachedViews, Len(cachedViews))
  IN  [after EXCEPT ![v].cache = <<>>,
                    ![v].config = "prototype",
                    ![v].model = NoModel,
                    ![v].had = @ \cup ({cachedViews[i] : i \in DOMAIN cachedViews} \ {0}),
                    ![v].removed = @ + 1]

(* what a module may put in the cache.views of the view v: views made      *)
(* after v, and null (0)                                                   *)
RECURSIVE SeqsOver(_, _)
SeqsOver(S, n) ==
  IF n = 0 THEN {<<>>}
  ELSE SeqsOver(S, n - 1) \cup {Append(q, e) : q \in SeqsOver(S, n - 1), e \in S}

CacheContents(v) ==
  SeqsOver({0} \cup {w \in DOMAIN views : w > v}, MaxCache) \ {<<>>}

ViewCall(op, path) ==
  [NoCall EXCEPT !.op = op, !.path = path, !.outcome = "returned"]

(* bloomberg.namespace(path, {View: ..., Model: ..., Config: ...}) *)
Module ==
  /\ Total(calls, Paths) - 1 < MaxModules
  /\ views = <<>>
  /\ \E namespace \in ModulePaths, literal \in Modules :
       DoNamespace(Append(heap, literal), namespace, Len(heap) + 1)

(* new bloomberg.<path>.View(options) at a registered path *)
NewView ==
  /\ Len(views) < MaxViews
  /\ \E namespace \in ModulePaths, options \in OptionSets :
       /\ Fq(namespace) \in DOMAIN registry
       /\ LET r == Initialize(heap, heap[registry[Fq(namespace)]]["View"], options)
          IN  /\ heap' = r.heap
              /\ views' = Append(views, r.view)
              /\ last' = ViewCall("new", namespace)
              /\ prev' = Handed(last)
              /\ UNCHANGED <<registry, handlers, held, cbs, calls, returns, emits>>

(* this.cache.views = [...] written by the code of a module *)
Cache ==
  \E v \in DOMAIN views :
    /\ views[v].removed = 0 /\ views[v].cache = <<>>
    /\ \E contents \in CacheContents(v) :
         /\ views' = [views EXCEPT ![v].cache = contents]
         /\ last' = ViewCall("cache", views[v].literal)
         /\ prev' = Handed(last)
         /\ UNCHANGED <<heap, registry, handlers, held, cbs, calls, returns, emits>>

(* view.remove() on a view that was not removed yet *)
Remove ==
  \E v \in DOMAIN views :
    /\ views[v].removed = 0
    /\ views' = RemoveRun(views, v)
    /\ last' = ViewCall("remove", views[v].literal)
    /\ prev' = Handed(last)
    /\ UNCHANGED <<heap, registry, handlers, held, cbs, calls, returns, emits>>

(* bloomberg.ready(name, callback) while the modules load *)
ReadyView ==
  /\ Len(cbs) < MaxReadys
  /\ views = <<>>
  /\ Ready

NextView == Module \/ ReadyView \/ NewView \/ Cache \/ Remove

SpecView == Init /\ [][NextView]_vars


\* ------------------------------------------------------------- claims
IsNamespace(call) == call.op = "namespace"
IsReady(call) == call.op = "ready"
Did(call, step) == \E i \in DOMAIN call.steps : call.steps[i] = step

(* two namespace() calls in a row on the same path below the root *)
Twice == /\ IsNamespace(prev) /\ IsNamespace(last)
         /\ prev.path = last.path /\ last.path # <<>>

Container == Lookup(heap, last.path)

(* the member keys of an object: its keys that are no child namespace *)
Members(props) == KeysOf(props) \cap MemberKeys

(* C1: a callback handed to ready(P, cb) while P was not in the registry   *)
(* has run exactly once as soon as P has been registered at least once     *)
(* since, however many times P is registered again.  Stated of the         *)
(* callbacks that only registrations of P have run.                        *)
C1_ExactlyOnce ==
  \A i \in DOMAIN cbs :
    ( /\ cbs[i].deferred
      /\ cbs[i].name \in {Fq(p) : p \in Paths}
      /\ cbs[i].regs >= 1
      /\ \A q \in cbs[i].by : Fq(q) = cbs[i].name )
      => cbs[i].count = 1

(* C2, as claimed: after namespace(p, m) has returned for a non-empty p,   *)
(* ready(p, cb) with that same string p runs cb once inside the call.      *)
C2_SamePathString ==
  (IsReady(last) /\ last.path \in Paths \ {<<>>} /\ returns[last.path] >= 1)
    => Len(last.invoked) = 1

(* C2, amended: after namespace(p, m) has returned for a non-empty p,      *)
(* ready("bloomberg." + p, cb) runs cb exactly once, inside the call, and  *)
(* binds no handler.                                                       *)
C2_FullyQualified ==
  \A p \in Paths \ {<<>>} :
    (IsReady(last) /\ last.path = Fq(p) /\ returns[p] >= 1)
      => /\ Len(last.invoked) = 1
         /\ last.invoked[1].cb = Len(cbs)
         /\ cbs[Len(cbs)].count = 1
         /\ ~last.bound

C2_Witness ==
  \E p \in Paths \ {<<>>} : IsReady(last) /\ last.path = Fq(p) /\ returns[p] >= 1

(* C3: namespace() has no error outcome: every call records the registry  *)
(* entry, triggers the ready event and returns the container.              *)
C3_NoErrorOutcome ==
  IsNamespace(last) =>
    /\ last.outcome = "returned"
    /\ Did(last, "record") /\ Did(last, "emit") /\ Did(last, "return")

(* C4: a fully-qualified path is a key of the registry exactly when        *)
(* namespace() has been called at least once with its path.                *)
C4_RegistryIff ==
  /\ \A p \in Paths : (Fq(p) \in DOMAIN registry) <=> (calls[p] >= 1)
  /\ DOMAIN registry \subseteq {Fq(p) : p \in Paths}

(* C5, as claimed: after namespace(p, m) with a non-empty p, every key of  *)
(* m is found in the container at p with the value m supplied.             *)
C5_SuppliedValues ==
  (IsNamespace(last) /\ last.path # <<>>)
    => /\ Container # 0
       /\ \A n \in KeysOf(last.m) : Get(heap[Container], n) = last.m[n]

(* C5, amended: after namespace(p, m) with a non-empty p, every key of m   *)
(* is found in the container at p; every key but View holds the value m    *)
(* supplied, and View holds the class namespace() extended from the View   *)
(* m supplied, whose config names the path and the container.              *)
C5_MembersRetrievable ==
  (IsNamespace(last) /\ last.path # <<>>)
    => /\ Container # 0
       /\ \A n \in KeysOf(last.m) \ {"View"} : Get(heap[Container], n) = last.m[n]
       /\ "View" \in KeysOf(last.m) =>
            Get(heap[Container], "View") = Extend(last.m["View"], Fq(last.path), Container)

C5_Witness ==
  /\ IsNamespace(last) /\ last.path # <<>> /\ last.existed
  /\ {"View", "x"} \subseteq KeysOf(last.m)
  /\ KeysOf(last.before) \cap KeysOf(last.m) # {}

C8_ScopedToPath ==
  \A i \in DOMAIN cbs : \A q \in cbs[i].by : Fq(q) = cbs[i].name

(* C9: every namespace() call triggers the ready event of its path once:   *)
(* n calls for a path are n events.                                        *)
C9_EmitPerCall ==
  /\ \A p \in Paths : emits[p] = calls[p]
  /\ IsNamespace(last) => last.emitted = <<Fq(last.path)>>

Bound(cb) == \E i \in DOMAIN handlers : handlers[i].cb = cb

(* p is a prefix of q *)
IsPrefix(p, q) == Len(p) <= Len(q) /\ SubSeq(q, 1, Len(p)) = p

(* C13: namespace("", m) merges the members of m into the root container,  *)
(* records the root under the root identifier alone and returns the root.  *)
C13_RootMerges ==
  (IsNamespace(last) /\ last.path = <<>>)
    => /\ \A n \in KeysOf(last.m) \ {"View"} : Get(heap[RootId], n) = last.m[n]
       /\ <<rootObject>> \in DOMAIN registry
       /\ registry[<<rootObject>>] = RootId
       /\ last.ret = RootId

(* C14: the value namespace(p, m) returns is the container that walking p  *)
(* from the root reaches after the call, and the container the registry    *)
(* entry of the fully-qualified path names.                                *)
C14_ReturnsTerminal ==
  (IsNamespace(last) /\ last.outcome = "returned")
    => /\ last.ret # 0
       /\ last.ret = Lookup(heap, last.path)
       /\ Fq(last.path) \in DOMAIN registry
       /\ registry[Fq(last.path)] = last.ret

C14_Witness ==
  /\ IsNamespace(last) /\ last.outcome = "returned"
  /\ Len(last.path) = 2 /\ last.existed
  /\ last.ret # RootId

(* C17: a callback handed to ready(P, cb) while P is in the registry runs  *)
(* once, in that call, and no later namespace() call runs it again: no     *)
(* handler is bound for it; a callback handed in before P is in the        *)
(* registry has its handler bound and keeps it.                            *)
C17_NoSubscription ==
  \A i \in DOMAIN cbs :
    /\ ~cbs[i].deferred => (cbs[i].count = 1 /\ cbs[i].by = {} /\ ~Bound(i))
    /\ cbs[i].deferred => Bound(i)

C17_Witness ==
  \E i \in DOMAIN cbs :
    /\ ~cbs[i].deferred /\ cbs[i].regs >= 1
    /\ IsNamespace(last) /\ Fq(last.path) = cbs[i].name

(* C18: for every key K of the registry, the container recorded under K    *)
(* has a View whose config.namespace.literal is K and whose                *)
(* config.namespace.object is that container.                              *)
C18_NamespaceBinding ==
  \A K \in DOMAIN registry :
    LET V == Get(heap[registry[K]], "View")
    IN  V.k = "view" /\ V.lit = K /\ V.obj = registry[K]

(* what is found at the path q: nothing, or an object and its properties *)
At(h, q) == IF Lookup(h, q) = 0 THEN <<0, NoProps>> ELSE <<Lookup(h, q), h[Lookup(h, q)]>>

(* C19: a namespace(p, m) call leaves what is found at every path q that   *)
(* is no prefix of p and has not p as a prefix as it was.                  *)
C19_PathIsolation ==
  [][ IsNamespace(last') =>
        \A q \in Paths :
          (~IsPrefix(q, last'.path) /\ ~IsPrefix(last'.path, q))
            => At(heap', q) = At(heap, q) ]_vars

(* C12: a namespace(p, m) call creates, at every proper prefix of p that   *)
(* did not exist, a container whose single key is the next segment of p,   *)
(* and keeps every prefix container that existed: the same object, with    *)
(* the keys it had and their values, and at most the next segment added.   *)
C12_Prefixes ==
  [][ IsNamespace(last') =>
        \A i \in 1 .. Len(last'.path) - 1 :
          LET r == SubSeq(last'.path, 1, i)
              seg == last'.path[i + 1]
              old == Lookup(heap, r)
              new == Lookup(heap', r)
          IN  /\ new # 0
              /\ old = 0 => KeysOf(heap'[new]) = {seg}
              /\ old # 0 =>
                   /\ new = old
                   /\ KeysOf(heap'[new]) \subseteq KeysOf(heap[old]) \cup {seg}
                   /\ \A n \in KeysOf(heap[old]) : Get(heap'[new], n) = heap[old][n] ]_vars


(* C11: ready(), new View(options) at a registered path and view.remove()  *)
(* leave the properties of every object of the tree and every entry of     *)
(* the registry as they were.                                              *)
C11_OnlyRegistrarMutates ==
  [][ last'.op \in {"ready", "new", "remove"} =>
        (heap' = heap /\ registry' = registry) ]_vars

(* C15: once remove() has returned on a view, remove() has been called on  *)
(* every view its cache.views held, and its cache.views is empty.          *)
C15_RemovesSubviews ==
  \A v \in DOMAIN views :
    views[v].removed > 0 =>
      /\ views[v].cache = <<>>
      /\ \A w \in views[v].had : views[w].removed > 0

(* C16: instantiating a View calls main once, with the options the caller  *)
(* handed in: the same keys and the same values.                           *)
C16_MainGetsOptions ==
  \A v \in DOMAIN views :
    /\ Len(views[v].main) = 1
    /\ views[v].main[1] = views[v].options

====
